---------------------------- MODULE Spec2Model ----------------------------
(***************************************************************************)
(* Model of src/src/App.js: the compound-interest projection               *)
(* (calculateCompoundData), the worked example (calculateExample), the     *)
(* derived metrics, and the input form (onChange, onDragEnd).              *)
(*                                                                         *)
(* JavaScript numbers are binary floating-point values.  They are modelled *)
(* as such: a sign, a significand of Prec bits and an exponent of at most   *)
(* MaxExp, every arithmetic operation rounding its exact result to the     *)
(* nearest representable value, ties to even, and to an infinity when it   *)
(* is out of range.  Prec is 24 where the language has 53 and MaxExp 28    *)
(* where it has 1023; there are no negative zero and no underflow.         *)
(***************************************************************************)
EXTENDS Integers, Sequences, FiniteSets

VARIABLES inputs, args, called, result

vars == <<inputs, args, called, result>>

-----------------------------------------------------------------------------
(* Numbers *)

\* Significand width of the modelled floating-point format.
Prec == 24

\* Largest exponent of the modelled format: every finite number is below
\* 2^(MaxExp + 1) in magnitude, and a result that rounds to that or more
\* is an infinity.
MaxExp == 28

Pow2(n) == 2 ^ n

\* A finite number s * m * 2^e; m = 0 or 2^(Prec-1) <= m < 2^Prec.
Fin(s, m, e) == [k |-> "fin", s |-> s, m |-> m, e |-> e]

Zero == Fin(1, 0, 0)

NaN == [k |-> "nan", s |-> 1, m |-> 0, e |-> 0]

\* The infinity of sign s.
Inf(s) == [k |-> "inf", s |-> s, m |-> 0, e |-> 0]

Infinity == Inf(1)

IsFinite(x) == x.k = "fin"

IsZero(x) == x.k = "fin" /\ x.m = 0

\* The rounded result s * m * 2^e of an operation: an infinity when it
\* is out of range.
Rounded(s, m, e) == IF e + Prec - 1 > MaxExp THEN Inf(s) ELSE Fin(s, m, e)

RECURSIVE BitLenIn(_, _, _)
\* Number of bits of n, known to lie in lo..hi (by bisection).
BitLenIn(n, lo, hi) ==
    IF lo = hi THEN lo
    ELSE IF n < Pow2((lo + hi) \div 2)
         THEN BitLenIn(n, lo, (lo + hi) \div 2)
         ELSE BitLenIn(n, (lo + hi) \div 2 + 1, hi)

\* Number of bits of n, 0 <= n < 2^31.
BitLen(n) == BitLenIn(n, 0, 31)

\* n * 2^e rounded to Prec bits, nearest, ties to even, for n > 0 of
\* len bits.
RoundBits(s, n, e, len) ==
    IF len <= Prec
    THEN Rounded(s, n * Pow2(Prec - len), e - (Prec - len))
    ELSE LET drop == len - Prec
             q == n \div Pow2(drop)
             r == n % Pow2(drop)
             half == Pow2(drop - 1)
             up == r > half \/ (r = half /\ q % 2 = 1)
             q1 == IF up THEN q + 1 ELSE q
         IN  IF q1 = Pow2(Prec)
             THEN Rounded(s, Pow2(Prec - 1), e + drop + 1)
             ELSE Rounded(s, q1, e + drop)

\* n * 2^e (n >= 0) rounded to Prec bits.
RoundInt(s, n, e) == IF n = 0 THEN Zero ELSE RoundBits(s, n, e, BitLen(n))

\* The number nearest to the integer n.
FromInt(n) == IF n < 0 THEN RoundInt(-1, -n, 0) ELSE RoundInt(1, n, 0)

One == FromInt(1)

Twelve == FromInt(12)

Hundred == FromInt(100)

\* -x
Neg(x) == IF x.k = "nan" \/ IsZero(x) THEN x ELSE [x EXCEPT !.s = -x.s]

\* |a| < |b| for finite a, b.
MagLess(a, b) ==
    IF b.m = 0 THEN FALSE
    ELSE IF a.m = 0 THEN TRUE
    ELSE a.e < b.e \/ (a.e = b.e /\ a.m < b.m)

\* a < b; a comparison with NaN is false.
Less(a, b) ==
    IF a.k = "nan" \/ b.k = "nan" THEN FALSE
    ELSE IF a.k = "inf" THEN a.s = -1 /\ ~(b.k = "inf" /\ b.s = -1)
    ELSE IF b.k = "inf" THEN b.s = 1
    ELSE IF a.s = 1 /\ b.s = 1 THEN MagLess(a, b)
    ELSE IF a.s = -1 /\ b.s = -1 THEN MagLess(b, a)
    ELSE a.s = -1

\* a <= b; a comparison with NaN is false.
LessEq(a, b) == a.k # "nan" /\ b.k # "nan" /\ ~Less(b, a)

\* b's significand, with three extra low bits, aligned to a's exponent
\* (a.e >= b.e); bits shifted out are kept as a sticky lowest bit.
Aligned(a, b) ==
    LET d == a.e - b.e
        w == b.m * 8
        sh == w \div Pow2(d)
    IN  [v |-> sh, sticky |-> (w % Pow2(d)) # 0]

\* |a| + |b| with sign s, for |a| >= |b|, both finite and nonzero.
AddMag(s, a, b) ==
    IF a.e - b.e > Prec + 2 THEN Fin(s, a.m, a.e)
    ELSE LET al == Aligned(a, b)
             n == a.m * 8 + al.v
             n1 == IF al.sticky THEN (n \div 2) * 2 + 1 ELSE n
         IN  RoundBits(s, n1, a.e - 3,
                       IF n1 >= Pow2(Prec + 3) THEN Prec + 4 ELSE Prec + 3)

\* |a| - |b| with sign s, for |a| > |b|, both finite and nonzero.
SubMag(s, a, b) ==
    IF a.e - b.e > Prec + 2 THEN Fin(s, a.m, a.e)
    ELSE LET al == Aligned(a, b)
             n == a.m * 8 - al.v
             n1 == IF al.sticky THEN ((n - 1) \div 2) * 2 + 1 ELSE n
         IN  RoundInt(s, n1, a.e - 3)

\* a + b
Add(a, b) ==
    IF a.k = "nan" \/ b.k = "nan" THEN NaN
    ELSE IF a.k = "inf" THEN (IF b.k = "inf" /\ b.s # a.s THEN NaN ELSE a)
    ELSE IF b.k = "inf" THEN b
    ELSE IF a.m = 0 THEN b
    ELSE IF b.m = 0 THEN a
    ELSE IF a.s = b.s
         THEN IF MagLess(a, b) THEN AddMag(a.s, b, a) ELSE AddMag(a.s, a, b)
         ELSE IF MagLess(a, b) THEN SubMag(b.s, b, a)
              ELSE IF MagLess(b, a) THEN SubMag(a.s, a, b)
              ELSE Zero

\* a - b
Sub(a, b) == Add(a, Neg(b))

\* Half the significand width, rounded up: the limb width of MulFinite.
Limb == (Prec + 1) \div 2

\* a * b for finite nonzero a, b: the exact product of the significands,
\* computed in limbs of Limb bits, rounded to Prec bits.
MulFinite(a, b) ==
    LET B == Pow2(Limb)
        a1 == a.m \div B
        a0 == a.m % B
        b1 == b.m \div B
        b0 == b.m % B
        mid == a1 * b0 + a0 * b1
        t == a0 * b0 + (mid % B) * B
        L == t % (B * B)
        H == a1 * b1 + (mid \div B) + (t \div (B * B))
        drop == IF H >= Pow2(2 * Prec - 1 - 2 * Limb) THEN Prec ELSE Prec - 1
        q == H * Pow2(2 * Limb - drop) + (L \div Pow2(drop))
        r == L % Pow2(drop)
        half == Pow2(drop - 1)
        up == r > half \/ (r = half /\ q % 2 = 1)
        q1 == IF up THEN q + 1 ELSE q
        e == a.e + b.e + drop
    IN  IF q1 = Pow2(Prec)
        THEN Rounded(a.s * b.s, Pow2(Prec - 1), e + 1)
        ELSE Rounded(a.s * b.s, q1, e)

\* a * b
Mul(a, b) ==
    IF a.k = "nan" \/ b.k = "nan" THEN NaN
    ELSE IF a.k = "inf" \/ b.k = "inf"
         THEN (IF IsZero(a) \/ IsZero(b) THEN NaN ELSE Inf(a.s * b.s))
    ELSE IF a.m = 0 \/ b.m = 0 THEN Zero
    ELSE MulFinite(a, b)

RECURSIVE DivLoop(_, _, _, _, _)
\* Long division: q is the quotient so far, r the remainder, the value
\* sought being (q + r/den) * 2^e.  Stops with Prec + 2 quotient bits and
\* a sticky bit, or as soon as the division is exact.
DivLoop(s, q, r, den, e) ==
    IF r = 0 THEN RoundInt(s, q, e)
    ELSE IF q >= Pow2(Prec + 1) THEN RoundInt(s, 2 * q + 1, e - 1)
    ELSE DivLoop(s, 2 * q + (IF 2 * r >= den THEN 1 ELSE 0),
                 IF 2 * r >= den THEN 2 * r - den ELSE 2 * r, den, e - 1)

\* (num / den) * 2^e for integers num >= 0, den > 0, rounded to Prec bits.
DivMag(s, num, den, e) == DivLoop(s, num \div den, num % den, den, e)

\* a / b: x/0 is an infinity, 0/0 and Infinity/Infinity are NaN.
Div(a, b) ==
    IF a.k = "nan" \/ b.k = "nan" THEN NaN
    ELSE IF a.k = "inf" THEN (IF b.k = "inf" THEN NaN ELSE Inf(a.s * b.s))
    ELSE IF b.k = "inf" THEN Zero
    ELSE IF b.m = 0 THEN (IF a.m = 0 THEN NaN ELSE Inf(a.s))
    ELSE IF a.m = 0 THEN Zero
    ELSE DivMag(a.s * b.s, a.m, b.m, a.e - b.e)

\* Math.round(x): the nearest integer, ties toward +Infinity; NaN and the
\* infinities are returned as they are.
Round(x) ==
    IF x.k # "fin" \/ x.m = 0 \/ x.e >= 0 THEN x
    ELSE IF -x.e > Prec + 1 THEN Zero
    ELSE LET q == x.m \div Pow2(-x.e)
             r == x.m % Pow2(-x.e)
             half == Pow2(-x.e - 1)
         IN  IF x.s = 1
             THEN FromInt(IF r >= half THEN q + 1 ELSE q)
             ELSE FromInt(IF r > half THEN -(q + 1) ELSE -q)


-----------------------------------------------------------------------------
(* Strings and JavaScript values *)

\* A string is a sequence of one-character strings.
Digits == {"0", "1", "2", "3", "4", "5", "6", "7", "8", "9"}

DigitVal(c) ==
    CASE c = "0" -> 0 [] c = "1" -> 1 [] c = "2" -> 2 [] c = "3" -> 3
      [] c = "4" -> 4 [] c = "5" -> 5 [] c = "6" -> 6 [] c = "7" -> 7
      [] c = "8" -> 8 [] c = "9" -> 9

AllDigits(str) == \A i \in 1..Len(str) : str[i] \in Digits

\* /^\d+$/.test(str)
MatchesInteger(str) == Len(str) >= 1 /\ AllDigits(str)

\* /^\d*\.?\d*$/.test(str)
MatchesDecimal(str) ==
    /\ \A i \in 1..Len(str) : str[i] \in Digits \cup {"."}
    /\ Cardinality({i \in 1..Len(str) : str[i] = "."}) <= 1

\* The least power of two that is out of the range of the finite numbers.
OutOfRange == Pow2(MaxExp + 1)

RECURSIVE DigitsValue(_, _)
\* The integer written by the digits of str, acc being the value so far,
\* or OutOfRange when it is that or more; characters that are no digits
\* are skipped.
DigitsValue(str, acc) ==
    IF str = <<>> THEN acc
    ELSE IF Head(str) \notin Digits THEN DigitsValue(Tail(str), acc)
    ELSE IF acc > (OutOfRange - 1 - DigitVal(Head(str))) \div 10 THEN OutOfRange
    ELSE DigitsValue(Tail(str), acc * 10 + DigitVal(Head(str)))

\* An unsigned decimal literal: digits with an optional point and
\* fraction, or a point followed by digits.
IsDecimalLiteral(str) ==
    /\ MatchesDecimal(str)
    /\ \E i \in 1..Len(str) : str[i] \in Digits

\* Number(str) for a string of digits, ".", "-", "+" and other characters:
\* the empty string is 0, a signed decimal literal its nearest number (an
\* infinity when it is out of range), anything else NaN.  A literal with a
\* fraction has digits that, read without the point, are in range.
StringToNumber(str) ==
    IF str = <<>> THEN Zero
    ELSE LET signed == Head(str) \in {"-", "+"}
             body == IF signed THEN Tail(str) ELSE str
             s == IF Head(str) = "-" THEN -1 ELSE 1
             point == {i \in 1..Len(body) : body[i] = "."}
             frac == IF point = {} THEN 0
                     ELSE Len(body) - (CHOOSE i \in point : TRUE)
         IN  IF IsDecimalLiteral(body)
             THEN DivMag(s, DigitsValue(body, 0), 10 ^ frac, 0)
             ELSE NaN

\* A JavaScript value: a string or a number.
Str(str) == [t |-> "string", str |-> str, num |-> Zero]

Num(x) == [t |-> "number", str |-> <<>>, num |-> x]

\* Number(v)
Number(v) == IF v.t = "string" THEN StringToNumber(v.str) ELSE v.num

\* x || 0 for a number x: NaN and 0 are falsy.
OrZero(x) == IF x.k = "nan" \/ IsZero(x) THEN Zero ELSE x

-----------------------------------------------------------------------------
(* calculateCompoundData *)

\* The month step with the contribution taken out instead of put in.
MonthStepWithdraws(compoundBalance, numMonthlyAmount, monthlyRate) ==
    Mul(Sub(compoundBalance, numMonthlyAmount), Add(One, monthlyRate))

\* The month step with the interest charged instead of credited.
MonthStepCharges(compoundBalance, numMonthlyAmount, monthlyRate) ==
    Mul(Add(compoundBalance, numMonthlyAmount), Sub(One, monthlyRate))

\* The month step with the interest credited before the contribution.
MonthStepCompoundsFirst(compoundBalance, numMonthlyAmount, monthlyRate) ==
    Add(Mul(compoundBalance, Add(One, monthlyRate)), numMonthlyAmount)

\* One pass of the month loop's body:
\* compoundBalance += numMonthlyAmount; compoundBalance *= (1 + monthlyRate)
MonthStep(compoundBalance, numMonthlyAmount, monthlyRate) ==
    Mul(Add(compoundBalance, numMonthlyAmount), Add(One, monthlyRate))

RECURSIVE MonthLoopThirteen(_, _, _)
\* The month loop running one month too many.
MonthLoopThirteen(st, numMonthlyAmount, monthlyRate) ==
    IF st.month <= 13
    THEN MonthLoopThirteen([month |-> st.month + 1,
                            compoundBalance |-> Mul(Add(st.compoundBalance, numMonthlyAmount),
                                                    Add(One, monthlyRate))],
                           numMonthlyAmount, monthlyRate)
    ELSE st.compoundBalance

RECURSIVE MonthLoop(_, _, _)
\* for (let month = 1; month <= 12; month++) { ... }, from the loop state
\* st = [month, compoundBalance]; its value is the balance at the loop's end.
MonthLoop(st, numMonthlyAmount, monthlyRate) ==
    IF st.month <= 12
    THEN MonthLoop([month |-> st.month + 1,
                    compoundBalance |-> MonthStep(st.compoundBalance,
                                                  numMonthlyAmount, monthlyRate)],
                   numMonthlyAmount, monthlyRate)
    ELSE st.compoundBalance

\* The snapshot with the initial amount left out of the contributions it
\* reports.
SnapshotWithoutInitial(year, compoundBalance, numInitialAmount, numMonthlyAmount, annualRate) ==
    LET y == FromInt(year)
        totalContributions ==
            Add(numInitialAmount, Mul(Mul(numMonthlyAmount, Twelve), y))
    IN  [year |-> year,
         balance |-> Round(compoundBalance),
         totalContributions |-> Round(Mul(Mul(numMonthlyAmount, Twelve), y)),
         interestEarned |-> Round(Sub(compoundBalance, totalContributions)),
         simpleBalance |-> Round(totalContributions)]

\* The snapshot pushed at the end of a year.
Snapshot(year, compoundBalance, numInitialAmount, numMonthlyAmount, annualRate) ==
    LET y == FromInt(year)
        totalContributions ==
            Add(numInitialAmount, Mul(Mul(numMonthlyAmount, Twelve), y))
        compoundInterestEarned == Sub(compoundBalance, totalContributions)
        simpleInterestEarned ==
            Add(Mul(Mul(numInitialAmount, annualRate), y),
                Mul(Mul(numMonthlyAmount, annualRate), y))
        simpleBalance ==
            Add(Add(numInitialAmount, Mul(Mul(numMonthlyAmount, Twelve), y)),
                simpleInterestEarned)
    IN  [year |-> year,
         balance |-> Round(compoundBalance),
         totalContributions |-> Round(totalContributions),
         interestEarned |-> Round(compoundInterestEarned),
         simpleBalance |-> Round(simpleBalance)]

RECURSIVE YearLoop(_, _, _, _, _, _)
\* for (let year = 1; year <= numYears; year++) { ...; result.push(...) },
\* from the loop state st = [year, compoundBalance, result]; its value is
\* the result at the loop's end.
YearLoop(st, numYears, numInitialAmount, numMonthlyAmount, monthlyRate, annualRate) ==
    IF LessEq(FromInt(st.year), numYears)
    THEN LET atYearEnd == MonthLoop([month |-> 1, compoundBalance |-> st.compoundBalance],
                                    numMonthlyAmount, monthlyRate)
         IN  YearLoop([year |-> st.year + 1,
                       compoundBalance |-> atYearEnd,
                       result |-> Append(st.result,
                                         Snapshot(st.year, atYearEnd, numInitialAmount,
                                                  numMonthlyAmount, annualRate))],
                      numYears, numInitialAmount, numMonthlyAmount,
                      monthlyRate, annualRate)
    ELSE st.result

\* The guard without its test of the initial amount.
InvalidInputWithoutInitial(numYears, numInterestRate, numMonthlyAmount, numInitialAmount) ==
    \/ LessEq(numYears, Zero)
    \/ Less(numInterestRate, Zero)
    \/ Less(numMonthlyAmount, Zero)

\* numYears <= 0 || numInterestRate < 0 || numMonthlyAmount < 0 || numInitialAmount < 0
InvalidInput(numYears, numInterestRate, numMonthlyAmount, numInitialAmount) ==
    \/ LessEq(numYears, Zero)
    \/ Less(numInterestRate, Zero)
    \/ Less(numMonthlyAmount, Zero)
    \/ Less(numInitialAmount, Zero)

\* p is the argument object {initialAmount, monthlyAmount, interestRate, years}.
calculateCompoundData(p) ==
    LET numYears == OrZero(Number(p.years))
        numMonthlyAmount == OrZero(Number(p.monthlyAmount))
        numInterestRate == OrZero(Number(p.interestRate))
        numInitialAmount == OrZero(Number(p.initialAmount))
    IN  IF InvalidInput(numYears, numInterestRate, numMonthlyAmount, numInitialAmount)
        THEN <<>>
        ELSE LET monthlyRate == Div(Div(numInterestRate, Hundred), Twelve)
                 annualRate == Div(numInterestRate, Hundred)
             IN  YearLoop([year |-> 1, compoundBalance |-> numInitialAmount,
                           result |-> <<>>],
                          numYears, numInitialAmount, numMonthlyAmount,
                          monthlyRate, annualRate)


-----------------------------------------------------------------------------
(* The form: App *)

Ids == <<"initialAmount", "monthlyAmount", "interestRate", "years">>

\* useState([...]): the four input cards, in their initial order, with
\* their initial values (label, icon, color and placeholder play no part
\* in any computation and are left out).
InitialInputs ==
    << [id |-> "initialAmount", value |-> <<>>],
       [id |-> "monthlyAmount", value |-> <<"1", "0", "0">>],
       [id |-> "interestRate", value |-> <<"7">>],
       [id |-> "years", value |-> <<"4", "0">>] >>

\* The value read from the position the card with this id has at first.
ValueOfByPosition(inp, id) ==
    LET at == CHOOSE i \in 1..Len(Ids) : Ids[i] = id
    IN  IF inp[at].value = <<>> THEN <<"0">> ELSE inp[at].value

\* inputs.find(i => i.id === id)?.value || '0'
ValueOf(inp, id) ==
    LET found == {i \in 1..Len(inp) : inp[i].id = id}
    IN  IF found = {} THEN <<"0">>
        ELSE LET first == CHOOSE i \in found : \A j \in found : i <= j
             IN  IF inp[first].value = <<>> THEN <<"0">> ELSE inp[first].value

\* The four scalars of the first useMemo, as passed to calculateCompoundData.
Scalars(inp) ==
    [initialAmount |-> Str(ValueOf(inp, "initialAmount")),
     monthlyAmount |-> Str(ValueOf(inp, "monthlyAmount")),
     interestRate |-> Str(ValueOf(inp, "interestRate")),
     years |-> Str(ValueOf(inp, "years"))]

\* const data = useMemo(() => calculateCompoundData({...}), [...]): a pure
\* function of the four scalars, recomputed when one of them changes.
data == calculateCompoundData(Scalars(inputs))

\* finalData = data.length > 0 ? data[data.length - 1] : null, for the
\* array d: HasFinalData(d) says it is not null.
HasFinalData(d) == Len(d) > 0

finalData(d) == d[Len(d)]

\* The multiplier guarded only by the presence of a final snapshot.
interestMultiplierUnguarded(d) ==
    IF HasFinalData(d)
    THEN Div(finalData(d).interestEarned, finalData(d).totalContributions)
    ELSE Zero

\* interestMultiplier, from the array d of snapshots.
interestMultiplier(d) ==
    IF HasFinalData(d) /\ Less(Zero, finalData(d).totalContributions)
    THEN Div(finalData(d).interestEarned, finalData(d).totalContributions)
    ELSE Zero

\* Math.pow(x, y) for x >= 0, by the class of its result: "nan", "inf",
\* "zero", "one", or "fin": a finite positive value, which is not
\* computed, and which lies between 1 and x when 0 < y <= 1.
PowClass(x, y) ==
    IF y.k = "nan" THEN "nan"
    ELSE IF IsZero(y) THEN "one"
    ELSE IF x.k = "nan" THEN "nan"
    ELSE IF y.k = "inf"
         THEN (IF x.k = "inf" THEN (IF y.s = 1 THEN "inf" ELSE "zero")
               ELSE IF Less(x, One) THEN (IF y.s = 1 THEN "zero" ELSE "inf")
               ELSE IF Less(One, x) THEN (IF y.s = 1 THEN "inf" ELSE "zero")
               ELSE "nan")
    ELSE IF x.k = "inf" THEN (IF y.s = 1 THEN "inf" ELSE "zero")
    ELSE IF IsZero(x) THEN (IF y.s = 1 THEN "zero" ELSE "inf")
    ELSE "fin"

\* effectiveRate, from the array d of snapshots and the string years, by
\* its class.  "zero" is the literal 0 of the guarded branch; otherwise it
\* is the class of
\* (Math.pow(balance / totalContributions, 1 / Number(years)) - 1) * 100:
\* "nan", "inf", "fin", or "finOrInf" where the power is finite but not
\* known to be small enough for the product to be finite.
effectiveRate(d, years) ==
    IF HasFinalData(d) /\ Less(Zero, finalData(d).totalContributions)
    THEN LET x == Div(finalData(d).balance, finalData(d).totalContributions)
             y == Div(One, Number(years))
             pw == PowClass(x, y)
         IN  IF pw \in {"zero", "one"} THEN "fin"
             ELSE IF pw = "fin"
                  THEN (IF LessEq(y, One) /\ IsFinite(Mul(x, Hundred))
                        THEN "fin" ELSE "finOrInf")
             ELSE pw
    ELSE "zero"

RECURSIVE ExampleLoop(_, _, _, _)
\* The year loop of calculateExample, from the loop state st = [year, balance];
\* its month loop is that of calculateCompoundData.
ExampleLoop(st, monthly, years, rate) ==
    IF st.year <= years
    THEN ExampleLoop([year |-> st.year + 1,
                      balance |-> MonthLoop([month |-> 1, compoundBalance |-> st.balance],
                                            monthly, rate)],
                     monthly, years, rate)
    ELSE st.balance

\* calculateExample(monthly, years) for integers monthly and years.
calculateExample(monthly, years) ==
    LET rate == Div(Div(Number(Scalars(inputs).interestRate), Hundred), Twelve)
    IN  Round(ExampleLoop([year |-> 1, balance |-> Zero],
                          FromInt(monthly), years, rate))

\* The test of onChange without Number(value) >= 0.
AcceptsByShapeOnly(id, value) ==
    \/ value = <<>>
    \/ IF id = "interestRate" THEN MatchesDecimal(value) ELSE MatchesInteger(value)

\* The test of onChange on the card with this id.
Accepts(id, value) ==
    \/ value = <<>>
    \/ /\ IF id = "interestRate" THEN MatchesDecimal(value) ELSE MatchesInteger(value)
       /\ LessEq(Zero, StringToNumber(value))

\* onChange of the card at position idx with e.target.value = value.
onChange(idx, value) ==
    /\ IF Accepts(inputs[idx].id, value)
       THEN inputs' = [i \in 1..Len(inputs) |->
                          IF inputs[i].id = inputs[idx].id
                          THEN [inputs[i] EXCEPT !.value = value]
                          ELSE inputs[i]]
       ELSE inputs' = inputs
    /\ UNCHANGED <<args, called, result>>

\* newInputs.splice(index, 1)
Removed(seq, index) ==
    [i \in 1..(Len(seq) - 1) |-> IF i <= index THEN seq[i] ELSE seq[i + 1]]

\* newInputs.splice(index, 0, item)
Inserted(seq, index, item) ==
    [i \in 1..(Len(seq) + 1) |->
        IF i <= index THEN seq[i] ELSE IF i = index + 1 THEN item ELSE seq[i - 1]]

\* onDragEnd(r): r.source.index and r.destination (null when the card is
\* dropped outside the list) are positions counted from 0.
onDragEnd(r) ==
    /\ IF ~r.destination.present
       THEN inputs' = inputs
       ELSE inputs' = Inserted(Removed(inputs, r.source.index),
                               r.destination.index,
                               inputs[r.source.index + 1])
    /\ UNCHANGED <<args, called, result>>

\* A string of digits too long for its value to be in the range of the
\* finite numbers.
Overlong == <<"9", "9", "9", "9", "9", "9", "9", "9", "9", "9">>

\* The strings typed or pasted into a card.
Strings ==
    { <<>>, <<"4", "0">>, <<".">>, <<".", "5">>, <<"-", "1">>, <<"4", "a">>,
      Overlong }

\* The strings typed or pasted into the card with this id.  With an
\* infinite number of years the year loop of calculateCompoundData never
\* ends and no render follows the edit, so the years card is given none.
Typed(id) == IF id = "years" THEN Strings \ {Overlong} ELSE Strings

DragResults ==
    { [source |-> [index |-> i], destination |-> [present |-> b, index |-> j]] :
        i \in 0..3, j \in 0..3, b \in BOOLEAN }

NoArgs == [initialAmount |-> Str(<<>>), monthlyAmount |-> Str(<<>>),
           interestRate |-> Str(<<>>), years |-> Str(<<>>)]

Edit == \E idx \in 1..4 : \E value \in Typed(inputs[idx].id) : onChange(idx, value)

Drag == \E r \in DragResults : onDragEnd(r)

Init ==
    /\ inputs = InitialInputs
    /\ args = NoArgs
    /\ called = FALSE
    /\ result = <<>>

Next == Edit \/ Drag

\* The form: edits and drags from the initial inputs.
Spec == Init /\ [][Next]_vars

-----------------------------------------------------------------------------
(* calculateCompoundData called on its own *)

MaxWhole == 2

MaxTenths == 2

MaxYears == 3

\* Amounts: negative, NaN, whole, fractional, the form's default 100, and
\* the first whole number whose successor is not a number.
Amounts ==
    {Num(FromInt(-1)), Num(NaN), Num(Hundred), Num(FromInt(Pow2(Prec)))}
        \cup {Num(FromInt(i)) : i \in 0..MaxWhole}
        \cup {Num(DivMag(1, i, 10, 0)) : i \in 1..MaxTenths}

\* Rates: negative, zero, the form's default 7, the fractional 7.5, and 10.
Rates ==
    {Num(FromInt(-1)), Num(Zero), Num(FromInt(7)), Num(DivMag(1, 15, 2, 0)),
     Num(FromInt(10))}

Horizons ==
    {Num(FromInt(-1)), Num(NaN), Num(Zero), Num(DivMag(1, 1, 2, 0)),
     Num(DivMag(1, 5, 2, 0))}
        \cup {Num(FromInt(y)) : y \in 1..MaxYears}

CalcInit ==
    /\ inputs = InitialInputs
    /\ args \in [initialAmount : Amounts, monthlyAmount : Amounts,
                 interestRate : Rates, years : Horizons]
    /\ called = FALSE
    /\ result = <<>>

Call ==
    /\ ~called
    /\ called' = TRUE
    /\ result' = calculateCompoundData(args)
    /\ UNCHANGED <<inputs, args>>

CalcNext == Call

\* One call of calculateCompoundData on arguments drawn from the sets above.
CalcSpec == CalcInit /\ [][CalcNext]_vars

-----------------------------------------------------------------------------
(* Properties of calculateCompoundData, checked under CalcSpec *)

\* The arguments of the call, as the numbers the guard compares.
ArgInitial == OrZero(Number(args.initialAmount))

ArgMonthly == OrZero(Number(args.monthlyAmount))

ArgRate == OrZero(Number(args.interestRate))

ArgYears == OrZero(Number(args.years))

NonNegative(x) == LessEq(Zero, x)

\* a === b for numbers: NaN equals nothing.
SameNumber(a, b) == a.k # "nan" /\ b.k # "nan" /\ a = b

\* x is a whole number: a finite value without a fractional part.
IsWhole(x) ==
    /\ IsFinite(x)
    /\ \/ IsZero(x)
       \/ x.e >= 0
       \/ (-x.e < Prec /\ x.m % Pow2(-x.e) = 0)

\* The integer that the whole number x is.
Value(x) ==
    IF x.m = 0 THEN 0
    ELSE IF x.e >= 0 THEN x.s * x.m * Pow2(x.e)
    ELSE x.s * (x.m \div Pow2(-x.e))

\* Every integer below this bound is a number, and sums, differences and
\* products of whole numbers below it are exact.
ExactBelow == FromInt(Pow2(Prec))

AnyNegative ==
    \/ LessEq(ArgYears, Zero)
    \/ Less(ArgRate, Zero)
    \/ Less(ArgMonthly, Zero)
    \/ Less(ArgInitial, Zero)

OthersNonNegative ==
    NonNegative(ArgRate) /\ NonNegative(ArgMonthly) /\ NonNegative(ArgInitial)

FinalBalance(res) == res[Len(res)].balance

\* C1 as stated: the result is empty when the horizon is not positive or a
\* rate or amount is negative, and non-empty whenever the horizon is
\* positive and the others are non-negative.
C1_EmptyIffGuard ==
    called =>
        /\ AnyNegative => result = <<>>
        /\ (Less(Zero, ArgYears) /\ OthersNonNegative) => result # <<>>

\* C1, amended: the result is empty when the horizon is not positive or a
\* rate or amount is negative, and non-empty whenever the horizon is at
\* least one year and the others are non-negative.
C1_EmptyOnGuardNonEmptyFromOneYear ==
    called =>
        /\ AnyNegative => result = <<>>
        /\ (LessEq(One, ArgYears) /\ OthersNonNegative) => result # <<>>

C1_Witness ==
    /\ called
    /\ LessEq(One, ArgYears)
    /\ Less(ArgInitial, Zero)
    /\ NonNegative(ArgRate) /\ Less(Zero, ArgMonthly)
    /\ result = <<>>

\* The emitted interest is the emitted balance minus the emitted
\* contributions: as integers when these are finite, as numbers otherwise.
InterestIsDifference(snapshot) ==
    IF IsFinite(snapshot.balance) /\ IsFinite(snapshot.totalContributions)
    THEN /\ IsFinite(snapshot.interestEarned)
         /\ Value(snapshot.interestEarned) =
                Value(snapshot.balance) - Value(snapshot.totalContributions)
    ELSE SameNumber(snapshot.interestEarned,
                    Sub(snapshot.balance, snapshot.totalContributions))

\* C2 as stated: in every snapshot the emitted interest earned is the
\* emitted balance minus the emitted total contributions.
C2_InterestIsDifference ==
    called => \A i \in 1..Len(result) : InterestIsDifference(result[i])

\* C2, amended: when the initial and the monthly amount are whole numbers,
\* in every snapshot whose balance is in the range of exact integers the
\* emitted interest earned is the emitted balance minus the emitted total
\* contributions.
C2_InterestIsDifferenceForWholeAmounts ==
    (called /\ IsWhole(ArgInitial) /\ IsWhole(ArgMonthly)) =>
        \A i \in 1..Len(result) :
            Less(result[i].balance, ExactBelow) =>
                /\ IsFinite(result[i].totalContributions)
                /\ InterestIsDifference(result[i])

C2_Witness ==
    /\ called
    /\ IsWhole(ArgInitial) /\ IsWhole(ArgMonthly)
    /\ Len(result) >= 2
    /\ Less(result[2].balance, ExactBelow)
    /\ Less(Zero, result[2].interestEarned)
    /\ Less(Zero, result[2].totalContributions)
    /\ InterestIsDifference(result[2])

ZeroRateCase ==
    /\ called
    /\ IsZero(ArgRate)
    /\ NonNegative(ArgInitial) /\ NonNegative(ArgMonthly)
    /\ Less(Zero, ArgYears)

\* Balance and simple balance equal the contributions, and no interest.
EqualsContributions(snapshot) ==
    /\ SameNumber(snapshot.balance, snapshot.totalContributions)
    /\ SameNumber(snapshot.simpleBalance, snapshot.totalContributions)
    /\ SameNumber(snapshot.interestEarned, Zero)

\* C3 as stated: at a rate of zero every snapshot has balance, simple
\* balance and total contributions equal, and no interest earned.
C3_ZeroRate ==
    ZeroRateCase => \A i \in 1..Len(result) : EqualsContributions(result[i])

\* C3, amended: at a rate of zero, when the initial and the monthly amount
\* are whole numbers, every snapshot whose total contributions are in the
\* range of exact integers has balance, simple balance and total
\* contributions equal, and no interest earned.
C3_ZeroRateForWholeAmounts ==
    (ZeroRateCase /\ IsWhole(ArgInitial) /\ IsWhole(ArgMonthly)) =>
        \A i \in 1..Len(result) :
            Less(result[i].totalContributions, ExactBelow) =>
                EqualsContributions(result[i])

C3_Witness ==
    /\ ZeroRateCase
    /\ IsWhole(ArgInitial) /\ IsWhole(ArgMonthly)
    /\ Len(result) >= 2
    /\ Less(result[2].totalContributions, ExactBelow)
    /\ Less(result[1].balance, result[2].balance)
    /\ Less(Zero, result[1].balance)
    /\ EqualsContributions(result[2])

\* The final balances of the calls that differ from this one in having a
\* larger initial amount, or a larger monthly amount.
LargerAmountBalances ==
    { FinalBalance(calculateCompoundData([args EXCEPT !.initialAmount = a])) :
        a \in {b \in Amounts : Less(ArgInitial, Number(b))} }
    \cup
    { FinalBalance(calculateCompoundData([args EXCEPT !.monthlyAmount = a])) :
        a \in {b \in Amounts : Less(ArgMonthly, Number(b))} }

\* C4 as stated: a larger monthly or initial amount, all else equal, gives
\* a strictly larger final balance.
C4_StrictlyIncreasingInAmounts ==
    (called /\ result # <<>>) =>
        \A larger \in LargerAmountBalances : Less(FinalBalance(result), larger)

\* C4, amended: a larger monthly or initial amount, all else equal, never
\* gives a smaller final balance.
C4_NonDecreasingInAmounts ==
    (called /\ result # <<>>) =>
        \A larger \in LargerAmountBalances : LessEq(FinalBalance(result), larger)

C4_Witness ==
    /\ called /\ result # <<>>
    /\ Less(Zero, ArgMonthly)
    /\ \E larger \in LargerAmountBalances : Less(FinalBalance(result), larger)

\* The final balances of the calls that differ from this one in having a
\* horizon one year longer.
OneYearLongerBalances ==
    { FinalBalance(calculateCompoundData([args EXCEPT !.years = h])) :
        h \in {g \in Horizons : SameNumber(Number(g), Add(ArgYears, One))} }

\* C5 as stated: at a positive rate the balance strictly increases from
\* each snapshot to the next, and so from a horizon to one a year longer.
C5_StrictlyIncreasingInYears ==
    (called /\ result # <<>> /\ Less(Zero, ArgRate)) =>
        /\ \A i \in 1..(Len(result) - 1) :
               Less(result[i].balance, result[i + 1].balance)
        /\ \A longer \in OneYearLongerBalances : Less(FinalBalance(result), longer)

\* C5, amended: at a positive rate the balance never decreases from a
\* snapshot to the next, and so from a horizon to one a year longer.
C5_NonDecreasingInYears ==
    (called /\ result # <<>> /\ Less(Zero, ArgRate)) =>
        /\ \A i \in 1..(Len(result) - 1) :
               LessEq(result[i].balance, result[i + 1].balance)
        /\ \A longer \in OneYearLongerBalances : LessEq(FinalBalance(result), longer)

C5_Witness ==
    /\ called /\ Less(Zero, ArgRate)
    /\ Len(result) >= 2
    /\ Less(result[1].balance, result[2].balance)
    /\ \E longer \in OneYearLongerBalances : Less(FinalBalance(result), longer)

RECURSIVE DepositsThenCompounds(_, _, _)
\* The balance after the months left in st = [left, balance] when each
\* month adds the contribution and then multiplies by 1 + rate.
DepositsThenCompounds(st, contribution, rate) ==
    IF st.left > 0
    THEN DepositsThenCompounds(
             [left |-> st.left - 1,
              balance |-> Mul(Add(st.balance, contribution), Add(One, rate))],
             contribution, rate)
    ELSE st.balance

WholeHorizonCase ==
    /\ called
    /\ IsWhole(ArgYears) /\ LessEq(One, ArgYears)
    /\ OthersNonNegative

\* C9: for a whole horizon of H years and valid inputs the result has H
\* snapshots, the y-th has year y, total contributions
\* round(initial + monthly * 12 * y), and the balance reached after 12 * y
\* months each of which adds the contribution before it compounds.
C9_OneSnapshotPerYear ==
    WholeHorizonCase =>
        /\ Len(result) = Value(ArgYears)
        /\ \A y \in 1..Len(result) :
            /\ result[y].year = y
            /\ SameNumber(result[y].totalContributions,
                          Round(Add(ArgInitial,
                                    Mul(Mul(ArgMonthly, Twelve), FromInt(y)))))
            /\ SameNumber(result[y].balance,
                          Round(DepositsThenCompounds(
                                    [left |-> 12 * y, balance |-> ArgInitial],
                                    ArgMonthly, Div(Div(ArgRate, Hundred), Twelve))))

C9_Witness ==
    /\ WholeHorizonCase
    /\ Len(result) >= 2
    /\ Less(Zero, ArgRate) /\ Less(One, ArgMonthly)
    /\ result[2].year = 2
    /\ Less(result[2].totalContributions, result[2].balance)

-----------------------------------------------------------------------------
(* Properties of the form, checked under Spec *)

\* C6 as stated: at the rate entered in the form, 100 a month for 40 years
\* ends strictly above 200 a month for 20 years.
C6_DoubleTimeBeatsDoubleAmount ==
    Less(calculateExample(200, 20), calculateExample(100, 40))

\* There is no snapshot, or the final one has total contributions of 0.
NothingContributed(d) ==
    ~HasFinalData(d) \/ SameNumber(finalData(d).totalContributions, Zero)

\* C7 as stated: the derived metrics are finite in every state, and both
\* are exactly 0 when there is no snapshot or the final snapshot's total
\* contributions are 0.  (An effective rate that is not known to be
\* finite or infinite counts as finite.)
C7_MetricsAlwaysFinite ==
    LET d == data
        years == Scalars(inputs).years
    IN  /\ IsFinite(interestMultiplier(d))
        /\ effectiveRate(d, years) \in {"zero", "fin", "finOrInf"}
        /\ NothingContributed(d) =>
               /\ interestMultiplier(d) = Zero
               /\ effectiveRate(d, years) = "zero"

\* C7, amended: when there is no snapshot or the final snapshot's total
\* contributions are 0, the derived metrics are both exactly 0.
C7_MetricsZeroWhenNothingContributed ==
    LET d == data
        years == Scalars(inputs).years
    IN  NothingContributed(d) =>
            /\ interestMultiplier(d) = Zero
            /\ effectiveRate(d, years) = "zero"

C7_Witness ==
    LET d == data
    IN  /\ HasFinalData(d)
        /\ SameNumber(finalData(d).totalContributions, Zero)
        /\ SameNumber(finalData(d).interestEarned, Zero)
        /\ interestMultiplier(d) = Zero

\* The value stored in the list inp under an id.
StoredUnder(inp, id) == {inp[i].value : i \in {j \in 1..Len(inp) : inp[j].id = id}}

IdSet == {Ids[i] : i \in 1..Len(Ids)}

\* The list holds each of the four ids exactly once.
EachIdOnce ==
    /\ Len(inputs) = Len(Ids)
    /\ \A id \in IdSet : Cardinality({i \in 1..Len(inputs) : inputs[i].id = id}) = 1

\* The rearrangements of the list inp.
Rearranged(inp) ==
    { [i \in 1..Len(inp) |-> inp[f[i]]] :
        f \in {g \in [1..Len(inp) -> 1..Len(inp)] :
                 \A i, j \in 1..Len(inp) : g[i] = g[j] => i = j} }

\* C8: through drags and edits the list holds each of the four ids once; a
\* drag leaves the value under each id and the four scalars as they were;
\* and the scalars are the same for every arrangement of the cards.
C8_ReorderingHasNoEffect ==
    /\ [](EachIdOnce /\ \A other \in Rearranged(inputs) : Scalars(other) = Scalars(inputs))
    /\ [][Drag => /\ \A id \in IdSet : StoredUnder(inputs', id) = StoredUnder(inputs, id)
                  /\ Scalars(inputs') = Scalars(inputs)]_vars

C8_Witness ==
    /\ inputs[1].id = "years"
    /\ inputs[2].id = "monthlyAmount"
    /\ inputs[3].id = "initialAmount"
    /\ inputs[3].value = <<"4", "0">>
    /\ Scalars(inputs).initialAmount = Str(<<"4", "0">>)

\* The shape the claim states for a value of the card with this id.
HasShape(id, value) ==
    IF id = "interestRate"
    THEN /\ \A i \in 1..Len(value) : value[i] \in Digits \cup {"."}
         /\ Cardinality({i \in 1..Len(value) : value[i] = "."}) <= 1
         /\ value # <<".">>
    ELSE \A i \in 1..Len(value) : value[i] \in Digits

\* The test the claim states: empty, or of the shape and parsing to a
\* finite number >= 0.
WellFormedFinite(id, value) ==
    \/ value = <<>>
    \/ /\ HasShape(id, value)
       /\ IsFinite(StringToNumber(value))
       /\ NonNegative(StringToNumber(value))

\* The same test without finiteness.
WellFormed(id, value) ==
    \/ value = <<>>
    \/ /\ HasShape(id, value)
       /\ NonNegative(StringToNumber(value))

\* The edits that fail the test as the claim states it, and without
\* finiteness.
NotFinite == {e \in IdSet \X Strings : ~WellFormedFinite(e[1], e[2])}

IllFormed == {e \in IdSet \X Strings : ~WellFormed(e[1], e[2])}

\* No scalar passed to calculateCompoundData is negative or NaN.
ScalarsNonNegative ==
    \A id \in IdSet : NonNegative(Number(Str(ValueOf(inputs, id))))

\* C10 as stated: every stored value is empty or of the stated shape and
\* parses to a finite number >= 0, the four scalars are never negative or
\* NaN, and an edit whose value fails the test leaves the list as it was.
C10_StoredValuesFinite ==
    /\ [](/\ \A i \in 1..Len(inputs) : WellFormedFinite(inputs[i].id, inputs[i].value)
          /\ ScalarsNonNegative)
    /\ [][\A idx \in 1..Len(inputs), value \in Strings :
              (<<inputs[idx].id, value>> \in NotFinite /\ onChange(idx, value))
                  => inputs' = inputs]_vars

\* C10, amended: every stored value is empty or of the stated shape and
\* parses to a number >= 0, which is Infinity when its digits are out of
\* range; the four scalars are never negative or NaN, and an edit whose
\* value fails the test leaves the list as it was.
C10_StoredValuesNonNegative ==
    /\ [](/\ \A i \in 1..Len(inputs) : WellFormed(inputs[i].id, inputs[i].value)
          /\ ScalarsNonNegative)
    /\ [][\A idx \in 1..Len(inputs), value \in Strings :
              (<<inputs[idx].id, value>> \in IllFormed /\ onChange(idx, value))
                  => inputs' = inputs]_vars

C10_Witness ==
    /\ \E i \in 1..Len(inputs) :
          inputs[i].id = "interestRate" /\ inputs[i].value = <<".", "5">>
    /\ \E i \in 1..Len(inputs) :
          inputs[i].id = "monthlyAmount" /\ inputs[i].value = Overlong
    /\ \E i \in 1..Len(inputs) :
          inputs[i].id = "years" /\ inputs[i].value = <<>>

=============================================================================
